---- MODULE Spec2Model ----
(***************************************************************************)
(* A model of serve.py of Serve-CDC-WARC: the key normaliser               *)
(* (simplify_path), the two-namespace store lookup with its one-shot       *)
(* slash correction (ServeLevelDB.find_content), the URL rewriter          *)
(* (rewrite_html_urls) and the two Flask routes (home, lookup).            *)
(*                                                                         *)
(* Python str and bytes values are sequences of one-character strings, so  *)
(* that startswith, replace and the regular expressions act on characters  *)
(* as they do in the program.                                              *)
(***************************************************************************)
EXTENDS Integers, Sequences, FiniteSets, TLC

VARIABLES content_db, mimetype_db, supported_sites, primary_host,
          primary_sites, call

vars == <<content_db, mimetype_db, supported_sites, primary_host,
          primary_sites, call>>

(***************************************************************************)
(* Bounds of the input spaces.                                             *)
(***************************************************************************)
MaxPathParts == 4
MaxKeyLen == 2
MaxExtraRefs == 1

(***************************************************************************)
(* Python's None, a value that is no str and no bytes.                     *)
(***************************************************************************)
None == <<"None">>

(***************************************************************************)
(* String primitives of Python, on sequences of characters.                *)
(***************************************************************************)
\* s[i-1:].startswith(pat), i counted from 1
MatchAt(s, i, pat) ==
    /\ i + Len(pat) - 1 <= Len(s)
    /\ \A j \in 1..Len(pat) : s[i + j - 1] = pat[j]

\* s.startswith(pat)
StartsWith(s, pat) == MatchAt(s, 1, pat)

\* the index of the first occurrence of old in s at or after i, 0 if none
FirstMatch(s, i, old) ==
    IF \E j \in i..Len(s) : MatchAt(s, j, old)
    THEN CHOOSE j \in i..Len(s) :
             MatchAt(s, j, old) /\ \A k \in i..(j - 1) : ~MatchAt(s, k, old)
    ELSE 0

\* s[i-1:].replace(old, new, count): leftmost, non-overlapping occurrences
\* of the non-empty string old, at most count of them
RECURSIVE ReplaceFrom(_, _, _, _, _)
ReplaceFrom(s, i, old, new, count) ==
    LET j == FirstMatch(s, i, old)
    IN  IF count = 0 \/ j = 0
        THEN SubSeq(s, i, Len(s))
        ELSE SubSeq(s, i, j - 1) \o new
             \o ReplaceFrom(s, j + Len(old), old, new, count - 1)

\* s.replace(old, new, count)
ReplaceCount(s, old, new, count) == ReplaceFrom(s, 1, old, new, count)

\* s.replace(old, new): every occurrence
Replace(s, old, new) == ReplaceFrom(s, 1, old, new, Len(s))

\* old in s
Contains(s, old) == \E i \in 1..Len(s) : MatchAt(s, i, old)

\* the concatenation of a sequence of strings
RECURSIVE Concat(_)
Concat(parts) ==
    IF parts = <<>> THEN <<>> ELSE Head(parts) \o Concat(Tail(parts))

\* the sequences over S of length 1..n
SeqsUpTo(S, n) == UNION {[1..k -> S] : k \in 1..n}

(***************************************************************************)
(* String literals of serve.py.                                            *)
(***************************************************************************)
HttpsSlash      == <<"h","t","t","p","s",":","/">>
HttpsSlashSlash == <<"h","t","t","p","s",":","/","/">>
HttpSlash       == <<"h","t","t","p",":","/">>
HttpSlashSlash  == <<"h","t","t","p",":","/","/">>

(***************************************************************************)
(* simplify_path(path)                                                     *)
(***************************************************************************)
\* simplify_path with the count of its replace calls left out
simplify_path_replace_all(path) ==
    IF StartsWith(path, HttpsSlash) /\ ~StartsWith(path, HttpsSlashSlash)
    THEN Replace(path, HttpsSlash, <<>>)
    ELSE IF StartsWith(path, HttpSlash) /\ ~StartsWith(path, HttpSlashSlash)
    THEN Replace(path, HttpSlash, <<>>)
    ELSE IF StartsWith(path, HttpsSlashSlash)
    THEN Replace(path, HttpsSlashSlash, <<>>)
    ELSE IF StartsWith(path, HttpSlashSlash)
    THEN Replace(path, HttpSlashSlash, <<>>)
    ELSE path

simplify_path(path) ==
    IF StartsWith(path, HttpsSlash) /\ ~StartsWith(path, HttpsSlashSlash)
    THEN ReplaceCount(path, HttpsSlash, <<>>, 1)
    ELSE IF StartsWith(path, HttpSlash) /\ ~StartsWith(path, HttpSlashSlash)
    THEN ReplaceCount(path, HttpSlash, <<>>, 1)
    ELSE IF StartsWith(path, HttpsSlashSlash)
    THEN ReplaceCount(path, HttpsSlashSlash, <<>>, 1)
    ELSE IF StartsWith(path, HttpSlashSlash)
    THEN ReplaceCount(path, HttpSlashSlash, <<>>, 1)
    ELSE path

(***************************************************************************)
(* UTF-8.  Every character the model uses is ASCII and is its own byte,    *)
(* except the character U+00E9, whose encoding is the two bytes C3 A9.     *)
(* A str is a sequence of characters and a bytes a sequence of bytes.      *)
(***************************************************************************)
EAcute == "U+00E9"
ByteC3 == "xC3"
ByteA9 == "xA9"

\* the exception a failed decode raises
Raised == <<"UnicodeDecodeError">>

\* bytes(s, "utf-8")
RECURSIVE Utf8Encode(_)
Utf8Encode(s) ==
    IF s = <<>> THEN <<>>
    ELSE (IF Head(s) = EAcute THEN <<ByteC3, ByteA9>> ELSE <<Head(s)>>)
         \o Utf8Encode(Tail(s))

\* b is well-formed UTF-8
RECURSIVE Utf8Valid(_)
Utf8Valid(b) ==
    IF b = <<>> THEN TRUE
    ELSE IF Head(b) = ByteC3
         THEN Len(b) >= 2 /\ b[2] = ByteA9 /\ Utf8Valid(Tail(Tail(b)))
    ELSE Head(b) # ByteA9 /\ Utf8Valid(Tail(b))

RECURSIVE Utf8DecodeValid(_)
Utf8DecodeValid(b) ==
    IF b = <<>> THEN <<>>
    ELSE IF Head(b) = ByteC3
         THEN <<EAcute>> \o Utf8DecodeValid(Tail(Tail(b)))
         ELSE <<Head(b)>> \o Utf8DecodeValid(Tail(b))

\* b.decode("utf-8"): the str, or Raised
Utf8Decode(b) == IF Utf8Valid(b) THEN Utf8DecodeValid(b) ELSE Raised

(***************************************************************************)
(* The regular expressions of find_content and rewrite_html_urls, as       *)
(* re.match applies them: anchored at the start of the string.             *)
(***************************************************************************)
\* the index of the first c in s, 0 when there is none
FirstIndex(s, c) ==
    IF \E i \in 1..Len(s) : s[i] = c
    THEN CHOOSE i \in 1..Len(s) :
             s[i] = c /\ \A j \in 1..(i - 1) : s[j] # c
    ELSE 0

NoMatch == [matched |-> FALSE, g1 |-> <<>>, g2 |-> <<>>]

\* (.*)$ on the rest of the string: "." matches no line break, and "$"
\* matches at the end and before a line break that ends the string
DotStarEnd(rest) ==
    LET n == FirstIndex(rest, "\n")
    IN  IF n = 0 THEN [matched |-> TRUE, g |-> rest]
        ELSE IF n = Len(rest)
             THEN [matched |-> TRUE, g |-> SubSeq(rest, 1, n - 1)]
             ELSE [matched |-> FALSE, g |-> <<>>]

\* re.match(r"([^?]+)/\?(.*)$", s)
MatchSlashQuery(s) ==
    LET q == FirstIndex(s, "?")
    IN  IF q >= 3 /\ s[q - 1] = "/"
        THEN LET tail == DotStarEnd(SubSeq(s, q + 1, Len(s)))
             IN  IF tail.matched
                 THEN [matched |-> TRUE, g1 |-> SubSeq(s, 1, q - 2),
                       g2 |-> tail.g]
                 ELSE NoMatch
        ELSE NoMatch

\* re.match(r"([^?]+)\?(.*)$", s)
MatchQuery(s) ==
    LET q == FirstIndex(s, "?")
    IN  IF q >= 2
        THEN LET tail == DotStarEnd(SubSeq(s, q + 1, Len(s)))
             IN  IF tail.matched
                 THEN [matched |-> TRUE, g1 |-> SubSeq(s, 1, q - 1),
                       g2 |-> tail.g]
                 ELSE NoMatch
        ELSE NoMatch

(***************************************************************************)
(* ServeLevelDB.find_content(full_path)                                    *)
(***************************************************************************)
\* db.get(key) of a prefixed LevelDB and of the dict of the tests
DbGet(db, key) == IF key \in DOMAIN db THEN db[key] ELSE None

\* full_path.replace(' ', '%20')
EscapeSpaces(full_path) == Replace(full_path, <<" ">>, <<"%", "2", "0">>)

\* secondary_key with its two regular expressions tried in the other order
secondary_key_query_first(full_path) ==
    LET m1 == MatchSlashQuery(full_path)
        m2 == MatchQuery(full_path)
    IN  IF m2.matched
        THEN Utf8Encode(m2.g1 \o <<"/", "?">> \o m2.g2)
        ELSE IF m1.matched
             THEN Utf8Encode(m1.g1 \o <<"?">> \o m1.g2)
             ELSE Utf8Encode(full_path) \o <<"/">>

\* the key of the second attempt, from the escaped path
secondary_key(full_path) ==
    LET m1 == MatchSlashQuery(full_path)
        m2 == MatchQuery(full_path)
    IN  IF m1.matched
        THEN Utf8Encode(m1.g1 \o <<"?">> \o m1.g2)
        ELSE IF m2.matched
             THEN Utf8Encode(m2.g1 \o <<"/", "?">> \o m2.g2)
             ELSE Utf8Encode(full_path) \o <<"/">>

\* the pair returned once content and mimetype_bytes are both found
found_pair(content, mimetype_bytes) ==
    IF Utf8Decode(mimetype_bytes) = Raised
    THEN Raised
    ELSE <<content, Utf8Decode(mimetype_bytes)>>

\* find_content looking up under the second key only what the first key
\* did not give
find_content_fill_missing(cdb, mdb, path) ==
    LET full_path == EscapeSpaces(path)
        raw_key   == Utf8Encode(full_path)
        raw_key2  == secondary_key(full_path)
        content   == IF DbGet(cdb, raw_key) = None
                     THEN DbGet(cdb, raw_key2) ELSE DbGet(cdb, raw_key)
        mimetype_bytes == IF DbGet(mdb, raw_key) = None
                          THEN DbGet(mdb, raw_key2) ELSE DbGet(mdb, raw_key)
    IN  IF content = None \/ mimetype_bytes = None
        THEN <<None, None>>
        ELSE found_pair(content, mimetype_bytes)

find_content(cdb, mdb, path) ==
    LET full_path == EscapeSpaces(path)
        raw_key   == Utf8Encode(full_path)
        content   == DbGet(cdb, raw_key)
        mimetype_bytes == DbGet(mdb, raw_key)
    IN  IF content = None \/ mimetype_bytes = None
        THEN LET raw_key2 == secondary_key(full_path)
                 content2 == DbGet(cdb, raw_key2)
                 mimetype_bytes2 == DbGet(mdb, raw_key2)
             IN  IF content2 = None \/ mimetype_bytes2 = None
                 THEN <<None, None>>
                 ELSE found_pair(content2, mimetype_bytes2)
        ELSE found_pair(content, mimetype_bytes)

(***************************************************************************)
(* rewrite_html_urls(full_path, content)                                   *)
(***************************************************************************)
HivriskStage == <<"h","i","v","r","i","s","k","s","t","a","g","e",".","c","d","c",".","g","o","v">>
Hivrisk      == <<"h","i","v","r","i","s","k",".","c","d","c",".","g","o","v">>
HrefDq       == <<"h","r","e","f","=","\"">>
HrefSq       == <<"h","r","e","f","=","'">>
SrcDq        == <<"s","r","c","=","\"">>
SrcSq        == <<"s","r","c","=","'">>
SrcsetDq     == <<"s","r","c","s","e","t","=","\"">>
SrcsetSq     == <<"s","r","c","s","e","t","=","'">>
Slash        == <<"/">>

\* the group of re.match(r"([^/]+)/", full_path), None without a match
path_website(full_path) ==
    LET q == FirstIndex(full_path, "/")
    IN  IF q >= 2 THEN SubSeq(full_path, 1, q - 1) ELSE None

\* lines 118-135: the six root-relative attribute forms, in order
RECURSIVE root_relative_pass(_, _, _)
root_relative_pass(content, website, attrs) ==
    IF attrs = <<>> THEN content
    ELSE root_relative_pass(
             Replace(content, Head(attrs) \o Slash,
                     Head(attrs) \o Slash \o website \o Slash),
             website, Tail(attrs))

\* root_relative without the two srcset forms
root_relative_no_srcset(content, website) ==
    root_relative_pass(content, website, <<HrefDq, HrefSq, SrcDq, SrcSq>>)

root_relative(content, website) ==
    root_relative_pass(content, website,
        <<HrefDq, HrefSq, SrcDq, SrcSq, SrcsetDq, SrcsetSq>>)

\* the four attribute-anchored replaces of one site, in order
RECURSIVE site_attr_pass(_, _, _, _)
site_attr_pass(content, site, target, attrs) ==
    IF attrs = <<>> THEN content
    ELSE site_attr_pass(
             Replace(content,
                     Head(attrs) \o HttpsSlashSlash \o site \o Slash,
                     Head(attrs) \o target),
             site, target, Tail(attrs))

\* the body of either for loop: the bare replace, then the four anchored
site_pass(content, site, target) ==
    site_attr_pass(
        Replace(content, HttpsSlashSlash \o site \o Slash, target),
        site, target, <<HrefDq, HrefSq, SrcDq, SrcSq>>)

\* lines 136-156: for site in supported_sites
RECURSIVE supported_pass(_, _)
supported_pass(content, sites) ==
    IF sites = <<>> THEN content
    ELSE supported_pass(
             site_pass(content, Head(sites), Slash \o Head(sites) \o Slash),
             Tail(sites))

\* lines 157-177: for site in primary_sites
RECURSIVE primary_pass(_, _, _)
primary_pass(content, sites, host) ==
    IF sites = <<>> THEN content
    ELSE primary_pass(
             site_pass(content, Head(sites),
                       HttpsSlashSlash \o host \o Slash \o Head(sites)
                           \o Slash),
             Tail(sites), host)

\* rewrite_rules with the two for loops in the other order
rewrite_rules_primary_first(website, content) ==
    supported_pass(
        primary_pass(
            root_relative(Replace(content, HivriskStage, Hivrisk), website),
            primary_sites, primary_host),
        supported_sites)

\* lines 116-179: the substitutions, once the website is known
rewrite_rules(website, content) ==
    primary_pass(
        supported_pass(
            root_relative(Replace(content, HivriskStage, Hivrisk), website),
            supported_sites),
        primary_sites, primary_host)

rewrite_html_urls(full_path, content) ==
    IF path_website(full_path) = None
    THEN content
    ELSE rewrite_rules(path_website(full_path), content)

(***************************************************************************)
(* The routes.  A response is <<status, mimetype or Location, body>>.      *)
(***************************************************************************)
RedirectSentinel == <<"=","r","e","d","i","r","e","c","t","=">>
TextHtml         == <<"t","e","x","t","/","h","t","m","l">>
TextHtmlSemi     == <<"t","e","x","t","/","h","t","m","l",";">>
AppJavascript    == <<"a","p","p","l","i","c","a","t","i","o","n","/","j","a","v","a","s","c","r","i","p","t">>
AppXJavascript   == <<"a","p","p","l","i","c","a","t","i","o","n","/","x","-","j","a","v","a","s","c","r","i","p","t">>
TextJavascript   == <<"t","e","x","t","/","j","a","v","a","s","c","r","i","p","t">>
TextCss          == <<"t","e","x","t","/","c","s","s">>
NotFoundBody     == <<"N","o","t"," ","F","o","u","n","d">>
ServerErrorBody  == <<"I","n","t","e","r","n","a","l"," ","S","e","r","v","e","r"," ","E","r","r","o","r">>
HomeTarget       == <<"/","h","i","v","r","i","s","k",".","c","d","c",".","g","o","v","/">>

\* the condition of lines 246-255
is_textual(mimetype) ==
    \/ mimetype = TextHtml
    \/ StartsWith(mimetype, TextHtmlSemi)
    \/ mimetype = AppJavascript
    \/ mimetype = AppXJavascript
    \/ mimetype = TextJavascript
    \/ mimetype = TextCss

\* lines 224-227: the path as requested, without its leading slash
request_full_path(subpath, query) ==
    IF query # <<>> THEN subpath \o <<"?">> \o query ELSE subpath

\* respond without the test for the redirect sentinel
respond_no_redirect(full_path, found) ==
    IF found = Raised
    THEN [status |-> 500, header |-> <<>>, body |-> ServerErrorBody]
    ELSE IF found[1] = None \/ found[2] = None
    THEN [status |-> 404, header |-> <<>>, body |-> NotFoundBody]
    ELSE IF is_textual(found[2])
    THEN [status |-> 200, header |-> found[2],
          body |-> rewrite_html_urls(full_path, found[1])]
    ELSE [status |-> 200, header |-> found[2], body |-> found[1]]

\* lines 234-258: the response to what find_content returned
respond(full_path, found) ==
    IF found = Raised
    THEN [status |-> 500, header |-> <<>>, body |-> ServerErrorBody]
    ELSE IF found[1] = None \/ found[2] = None
    THEN [status |-> 404, header |-> <<>>, body |-> NotFoundBody]
    ELSE IF found[2] = RedirectSentinel
    THEN IF Utf8Decode(found[1]) = Raised
         THEN [status |-> 500, header |-> <<>>, body |-> ServerErrorBody]
         ELSE [status |-> 302, header |-> Slash \o Utf8Decode(found[1]),
               body |-> <<>>]
    ELSE IF is_textual(found[2])
    THEN [status |-> 200, header |-> found[2],
          body |-> rewrite_html_urls(full_path, found[1])]
    ELSE [status |-> 200, header |-> found[2], body |-> found[1]]

\* lookup(subpath), for the request /<subpath>?<query>
lookup(subpath, query) ==
    LET full_path == simplify_path(request_full_path(subpath, query))
    IN  respond(full_path,
                find_content(content_db, mimetype_db,
                             HttpsSlashSlash \o full_path))

\* home()
home == [status |-> 302, header |-> HomeTarget, body |-> <<>>]

(***************************************************************************)
(* The state.  content_db and mimetype_db are the two prefixed databases   *)
(* of ServeLevelDB, functions from the keys they hold to the stored bytes; *)
(* supported_sites, primary_host and primary_sites are the globals of the  *)
(* module.  call is the last call made and what it returned:               *)
(*   op      the function or route called                                  *)
(*   arg     its arguments                                                 *)
(*   local   the local variables of a route when it returned               *)
(*   ret     the value returned (for a route: Location or mimetype, body)  *)
(*   status  the HTTP status of a route's response, 0 for a function       *)
(***************************************************************************)
EmptyDb == <<>>

NoCall == [op |-> "none", arg |-> <<>>, local |-> <<>>, ret |-> <<>>,
           status |-> 0]

\* lines 13-15
GlobalsAtImport ==
    /\ supported_sites = <<>>
    /\ primary_host = <<>>
    /\ primary_sites = <<>>

(***************************************************************************)
(* simplify_path on its own.  The paths are made of up to MaxPathParts     *)
(* pieces.                                                                 *)
(***************************************************************************)
PathParts ==
    { <<"h","t","t","p","s",":">>, <<"h","t","t","p",":">>, <<"H","T","T","P","S",":">>,
      <<"/">>, <<"a",".","b">>, <<"%","2","F">> }

Paths == {<<>>} \cup {Concat(parts) : parts \in SeqsUpTo(PathParts, MaxPathParts)}

InitPath ==
    /\ content_db = EmptyDb
    /\ mimetype_db = EmptyDb
    /\ GlobalsAtImport
    /\ call = NoCall

\* the caller takes the result: no call is in progress any more
Return ==
    /\ call # NoCall
    /\ call' = NoCall
    /\ UNCHANGED <<content_db, mimetype_db, supported_sites, primary_host,
                   primary_sites>>

SimplifyPath(path) ==
    /\ call = NoCall
    /\ call' = [op |-> "simplify_path", arg |-> <<path>>, local |-> <<>>,
                ret |-> <<simplify_path(path)>>, status |-> 0]
    /\ UNCHANGED <<content_db, mimetype_db, supported_sites, primary_host,
                   primary_sites>>

NextPath ==
    \/ \E path \in Paths : SimplifyPath(path)
    \/ Return

SpecPath == InitPath /\ [][NextPath]_vars

(***************************************************************************)
(* find_content on its own.  The keys are the strings of up to MaxKeyLen   *)
(* characters of KeyChars, and those with one more slash or with a line    *)
(* break at the end.  A store holds record A under one key and, or,        *)
(* record B under that key with one more slash, each record whole or in    *)
(* part.                                                                   *)
(***************************************************************************)
KeyChars == {"a", "/", "?", " "}

ShortKeys == {<<>>} \cup SeqsUpTo(KeyChars, MaxKeyLen)

InsertSlash(k, i) == SubSeq(k, 1, i) \o <<"/">> \o SubSeq(k, i + 1, Len(k))

SlashNeighbours(k) == {InsertSlash(k, i) : i \in 0..Len(k)}

Keys ==
    ShortKeys \cup UNION {SlashNeighbours(k) : k \in ShortKeys}
              \cup {k \o <<"\n">> : k \in ShortKeys}

ContentA == <<"A">>
ContentB == <<"B">>
MimeA    == <<"t", "/", "a">>
MimeB    == <<"t", "/", ByteC3, ByteA9>>

\* the stores: <<content_db, mimetype_db>>
OneKeyStores ==
    UNION {{ <<k :> ContentA, k :> MimeA>>,
             <<k :> ContentA, EmptyDb>>,
             <<EmptyDb, k :> MimeA>> } : k \in Keys}

TwoKeyStores ==
    UNION {UNION {{ <<k1 :> ContentA, k2 :> MimeB>>,
                    <<k2 :> ContentB, k1 :> MimeA>>,
                    <<(k1 :> ContentA) @@ (k2 :> ContentB),
                      (k1 :> MimeA) @@ (k2 :> MimeB)>> }
                  : k2 \in SlashNeighbours(k1)} : k1 \in ShortKeys}

FindStores == {<<EmptyDb, EmptyDb>>} \cup OneKeyStores \cup TwoKeyStores

InitFind ==
    /\ \E store \in FindStores :
           /\ content_db = store[1]
           /\ mimetype_db = store[2]
    /\ GlobalsAtImport
    /\ call = NoCall

FindContent(full_path) ==
    /\ call = NoCall
    /\ call' = [op |-> "find_content", arg |-> <<full_path>>,
                local |-> <<>>,
                ret |-> find_content(content_db, mimetype_db, full_path),
                status |-> 0]
    /\ UNCHANGED <<content_db, mimetype_db, supported_sites, primary_host,
                   primary_sites>>

NextFind ==
    \/ \E full_path \in Keys : FindContent(full_path)
    \/ Return

SpecFind == InitFind /\ [][NextFind]_vars

(***************************************************************************)
(* rewrite_html_urls on its own, as the tests call it: set_globals, then   *)
(* the rewriter, and the rewriter again over its own result.               *)
(***************************************************************************)
SiteAB == <<"a",".","b">>
SiteCD == <<"c",".","d">>
SiteEF == <<"e",".","f">>
HostPQ == <<"p",".","q">>

\* the arguments of set_globals: <<sites, host, primary>>
Configs ==
    { <<<<SiteAB, SiteCD>>, HostPQ, <<SiteEF>>>>,
      <<<<SiteAB, SiteCD>>, HostPQ, <<SiteCD, SiteEF>>>>,
      <<<<Hivrisk, SiteAB>>, HostPQ, <<SiteCD>>>>,
      <<<<>>, HostPQ, <<SiteCD, HostPQ>>>>,
      <<<<SiteEF, HivriskStage>>, SiteAB, <<HivriskStage, SiteCD>>>> }

\* the page paths: with a domain and a slash, and without the slash
PagePaths ==
    { SiteAB \o Slash,
      SiteCD \o Slash \o <<"x">>,
      SiteAB }

\* how a reference stands in the content: bare, or as an attribute value
Quote(attr) == <<attr[Len(attr)]>>

Attrs == {HrefDq, HrefSq, SrcDq, SrcSq, SrcsetDq, SrcsetSq}

\* the domains referred to
RefDomains == {SiteAB, SiteCD, SiteEF, HivriskStage}

\* the rest of a reference, after its domain or directory
File == <<"f">>

RootRelativeTarget == Slash \o File
RelativeTargets == {<<".", ".">> \o Slash \o File, File}
CrossSiteTarget(d) == HttpsSlashSlash \o d \o Slash \o File
PlainHttpTarget == HttpSlashSlash \o SiteCD \o Slash \o File

Targets ==
    {RootRelativeTarget, PlainHttpTarget} \cup RelativeTargets
        \cup {CrossSiteTarget(d) : d \in RefDomains}

\* a reference: <<attr, target>>, attr <<>> for a bare reference
Refs == (Attrs \cup {<<>>}) \X Targets

RefText(attr, target) ==
    IF attr = <<>> THEN target ELSE attr \o target \o Quote(attr)

\* texts one after the other, a blank between two
RECURSIVE JoinTexts(_)
JoinTexts(texts) ==
    IF texts = <<>> THEN <<>>
    ELSE IF Len(texts) = 1 THEN Head(texts)
    ELSE Head(texts) \o <<" ">> \o JoinTexts(Tail(texts))

\* the content holding the references refs, one after the other
ContentOf(refs) ==
    JoinTexts([i \in 1..Len(refs) |-> RefText(refs[i][1], refs[i][2])])

\* the references that follow the first one
ExtraRefs ==
    { <<HrefDq, RootRelativeTarget>>,
      <<<<>>, CrossSiteTarget(SiteCD)>>,
      <<SrcSq, CrossSiteTarget(SiteAB)>> }

RefLists ==
    {<<r>> \o extra :
         r \in Refs,
         extra \in {<<>>} \cup SeqsUpTo(ExtraRefs, MaxExtraRefs)}

InitRewrite ==
    /\ content_db = EmptyDb
    /\ mimetype_db = EmptyDb
    /\ GlobalsAtImport
    /\ call = NoCall

\* set_globals(sites, host, primary)
SetGlobals(sites, host, primary) ==
    /\ call = NoCall
    /\ supported_sites' = sites
    /\ primary_host' = host
    /\ primary_sites' = primary
    /\ call' = [op |-> "set_globals", arg |-> <<sites, host, primary>>,
                local |-> <<>>, ret |-> <<>>, status |-> 0]
    /\ UNCHANGED <<content_db, mimetype_db>>

\* rewrite_html_urls(full_path, ContentOf(refs))
RewriteHtmlUrls(full_path, refs) ==
    /\ call = NoCall
    /\ call' = [op |-> "rewrite_html_urls", arg |-> <<full_path, refs>>,
                local |-> <<>>,
                ret |-> <<rewrite_html_urls(full_path, ContentOf(refs))>>,
                status |-> 0]
    /\ UNCHANGED <<content_db, mimetype_db, supported_sites, primary_host,
                   primary_sites>>

\* the rewriter run again over what it returned, for the same page
RewriteAgain ==
    /\ call.op = "rewrite_html_urls"
    /\ call' = [op |-> "rewrite_html_urls again",
                arg |-> <<call.arg[1], call.arg[2]>>,
                local |-> call.ret,
                ret |-> <<rewrite_html_urls(call.arg[1], call.ret[1])>>,
                status |-> 0]
    /\ UNCHANGED <<content_db, mimetype_db, supported_sites, primary_host,
                   primary_sites>>

NextRewrite ==
    \/ \E config \in Configs : SetGlobals(config[1], config[2], config[3])
    \/ \E full_path \in PagePaths, refs \in RefLists :
           RewriteHtmlUrls(full_path, refs)
    \/ RewriteAgain
    \/ Return

SpecRewrite == InitRewrite /\ [][NextRewrite]_vars

(***************************************************************************)
(* The server as main() starts it: the globals set from the site lists,    *)
(* the database opened, then requests to the two routes.                   *)
(***************************************************************************)
ServerKeys ==
    { HttpsSlashSlash \o SiteAB \o Slash,
      HttpsSlashSlash \o SiteAB \o Slash \o <<"x">>,
      HttpsSlashSlash \o SiteAB \o Slash \o <<"x", "/", "?", "q">>,
      HttpsSlashSlash \o SiteCD \o <<"?", "q">> }

MimeTypes ==
    { TextHtml, TextHtmlSemi \o <<"c">>, AppJavascript, AppXJavascript,
      TextJavascript, TextCss, RedirectSentinel,
      <<"i","m","a","g","e","/","p","n","g">>, <<"t","e","x","t","/","p","l","a","i","n">>, <<"T","E","X","T","/","H","T","M","L">> }

\* stored bodies: two pages, a redirect target with a non-ASCII character,
\* and bytes that are no UTF-8
ServerContents ==
    { ContentOf(<<<<HrefDq, RootRelativeTarget>>>>),
      ContentOf(<<<<SrcSq, CrossSiteTarget(SiteCD)>>,
                  <<SrcsetDq, RootRelativeTarget>>>>),
      SiteCD \o Slash \o <<ByteC3, ByteA9>>,
      <<ByteA9>> \o ContentOf(<<<<HrefSq, RootRelativeTarget>>>>) }

\* a redirect record holds a UTF-8 string
ServerRecords ==
    {r \in ServerKeys \X ServerContents \X MimeTypes :
         r[3] = RedirectSentinel => Utf8Valid(r[2])}

Subpaths ==
    { SiteAB, SiteAB \o Slash, SiteAB \o Slash \o <<"x">>,
      SiteAB \o Slash \o <<"x">> \o Slash,
      HttpsSlash \o SiteAB \o Slash,
      HttpsSlashSlash \o SiteAB \o Slash \o <<"x">>,
      HttpSlash \o SiteAB,
      SiteCD, SiteCD \o Slash }

Queries == {<<>>, <<"q">>}

Init ==
    /\ \E r \in ServerRecords :
           /\ content_db = (r[1] :> r[2])
           /\ mimetype_db = (r[1] :> Utf8Encode(r[3]))
    /\ \E config \in Configs :
           /\ supported_sites = config[1]
           /\ primary_host = config[2]
           /\ primary_sites = config[3]
    /\ call = NoCall

\* GET /
Home ==
    /\ call = NoCall
    /\ call' = [op |-> "home", arg |-> <<>>, local |-> <<>>,
                ret |-> <<home.header, home.body>>, status |-> home.status]
    /\ UNCHANGED <<content_db, mimetype_db, supported_sites, primary_host,
                   primary_sites>>

\* GET /<subpath>?<query>
Lookup(subpath, query) ==
    /\ call = NoCall
    /\ LET full_path == simplify_path(request_full_path(subpath, query))
           found == find_content(content_db, mimetype_db,
                                 HttpsSlashSlash \o full_path)
           response == lookup(subpath, query)
       IN  call' = [op |-> "lookup", arg |-> <<subpath, query>>,
                    local |-> <<full_path, found>>,
                    ret |-> <<response.header, response.body>>,
                    status |-> response.status]
    /\ UNCHANGED <<content_db, mimetype_db, supported_sites, primary_host,
                   primary_sites>>

Next ==
    \/ Home
    \/ \E subpath \in Subpaths, query \in Queries : Lookup(subpath, query)
    \/ Return

Spec == Init /\ [][Next]_vars

(***************************************************************************)
(* Properties of simplify_path, under SpecPath.                            *)
(***************************************************************************)
SchemePrefixes == {HttpsSlashSlash, HttpSlashSlash, HttpsSlash, HttpSlash}

\* s without its first n characters
Drop(s, n) == SubSeq(s, n + 1, Len(s))

\* C6: simplify_path strips exactly one leading scheme.  For each of the
\* four prefixes https://, http://, https:/ and http:/ and every remainder
\* that does not begin with a slash, the prefix followed by the remainder
\* is simplified to the remainder; a path that begins with none of the
\* four is returned as it is.
C6_StripsOneScheme ==
    call.op = "simplify_path" =>
        LET path == call.arg[1]
            result == call.ret[1]
        IN  /\ \A prefix \in SchemePrefixes :
                   (/\ StartsWith(path, prefix)
                    /\ ~StartsWith(Drop(path, Len(prefix)), Slash))
                   => result = Drop(path, Len(prefix))
            /\ (\A prefix \in SchemePrefixes : ~StartsWith(path, prefix))
                   => result = path

\* the malformed single-slash scheme has been stripped from a.b/
C6_Witness ==
    /\ call.op = "simplify_path"
    /\ call.arg[1] = HttpsSlash \o SiteAB \o Slash
    /\ call.ret[1] = SiteAB \o Slash

\* C7: simplify_path is idempotent: simplifying what it returned returns
\* the same string.
C7_Idempotent ==
    call.op = "simplify_path" =>
        simplify_path(call.ret[1]) = call.ret[1]

(***************************************************************************)
(* Properties of find_content, under SpecFind.                             *)
(***************************************************************************)
\* the store holds one record, whole, under the key of the string s
StoredOnlyUnder(s) ==
    /\ DOMAIN content_db = {Utf8Encode(s)}
    /\ DOMAIN mimetype_db = {Utf8Encode(s)}

\* the content and media type stored under the key of the string s
StoredPair(s) ==
    <<content_db[Utf8Encode(s)], Utf8Decode(mimetype_db[Utf8Encode(s)])>>

HasChar(s, c) == \E i \in 1..Len(s) : s[i] = c

\* the path looked up is prefix ? query, the first ? being the divider
SplitsAt(path, i) ==
    /\ i \in 1..Len(path)
    /\ path[i] = "?"
    /\ ~HasChar(SubSeq(path, 1, i - 1), "?")

C2_BothOrNothing ==
    call.op = "find_content" =>
        LET full_path == EscapeSpaces(call.arg[1])
            candidates == {Utf8Encode(full_path), secondary_key(full_path)}
        IN  /\ call.ret # Raised
            /\ \/ call.ret = <<None, None>>
               \/ \E key \in candidates :
                      /\ key \in DOMAIN content_db
                      /\ key \in DOMAIN mimetype_db
                      /\ call.ret = <<content_db[key],
                                      Utf8Decode(mimetype_db[key])>>

\* content under the key itself, media type under the corrected key only:
\* nothing is found
C2_Witness ==
    /\ call.op = "find_content"
    /\ call.arg[1] = <<"a">>
    /\ content_db = (<<"a">> :> ContentA)
    /\ mimetype_db = (<<"a", "/">> :> MimeB)
    /\ call.ret = <<None, None>>

(***************************************************************************)
(* Properties of rewrite_html_urls, under SpecRewrite.  The content of a   *)
(* call is ContentOf(refs); what a property says of some references is     *)
(* said of each of them where it stands, the other references of the       *)
(* content coming out as the rewriter returns them on their own.           *)
(***************************************************************************)
InList(d, list) == \E i \in 1..Len(list) : list[i] = d

\* the domain a path begins with: what stands before its first / or ?
FirstDivider(path) ==
    IF \E i \in 1..Len(path) : path[i] \in {"/", "?"}
    THEN CHOOSE i \in 1..Len(path) :
             /\ path[i] \in {"/", "?"}
             /\ \A j \in 1..(i - 1) : path[j] \notin {"/", "?"}
    ELSE Len(path) + 1

DomainOfPath(path) == SubSeq(path, 1, FirstDivider(path) - 1)

\* the path has the form <domain>/...
DomainSlashPath(path) ==
    /\ DomainOfPath(path) # <<>>
    /\ StartsWith(path, DomainOfPath(path) \o Slash)

\* the reference ref alone, as the rewriter returns it for the page
Alone(full_path, ref) ==
    rewrite_html_urls(full_path, RefText(ref[1], ref[2]))

\* the domain of a cross-site reference, <<>> for any other reference
RefDomain(ref) ==
    IF \E d \in RefDomains : ref[2] = CrossSiteTarget(d)
    THEN CHOOSE d \in RefDomains : ref[2] = CrossSiteTarget(d)
    ELSE <<>>

LocalTarget(d) == Slash \o d \o Slash \o File
PrimaryTarget(d) ==
    HttpsSlashSlash \o primary_host \o Slash \o d \o Slash \o File

\* C5: for a page path <domain>/..., every root-relative attribute
\* reference (href, src or srcset, either quote) comes out with /<domain>
\* in front of its value, and every relative attribute reference (../f, f)
\* comes out unchanged.
C5_RootRelative ==
    (call.op = "rewrite_html_urls" /\ DomainSlashPath(call.arg[1])) =>
        LET full_path == call.arg[1]
            refs == call.arg[2]
            expected(ref) ==
                IF ref[1] \in Attrs /\ ref[2] = RootRelativeTarget
                THEN RefText(ref[1],
                             Slash \o DomainOfPath(full_path) \o ref[2])
                ELSE IF ref[1] \in Attrs /\ ref[2] \in RelativeTargets
                THEN RefText(ref[1], ref[2])
                ELSE Alone(full_path, ref)
        IN  call.ret[1] =
                JoinTexts([i \in 1..Len(refs) |-> expected(refs[i])])

\* srcset='/f' on the page c.d/x has come out as srcset='/c.d/f'
C5_Witness ==
    /\ call.op = "rewrite_html_urls"
    /\ call.arg[1] = SiteCD \o Slash \o <<"x">>
    /\ call.arg[2][1] = <<SrcsetSq, RootRelativeTarget>>
    /\ StartsWith(call.ret[1],
                  SrcsetSq \o Slash \o SiteCD \o RootRelativeTarget
                      \o Quote(SrcsetSq))

\* the site lists as the specification wants them: no domain in both, and
\* the primary host and the staging host in neither
ListsAsIntended ==
    /\ \A d \in RefDomains \cup {primary_host, Hivrisk} :
           ~(InList(d, supported_sites) /\ InList(d, primary_sites))
    /\ \A d \in {primary_host, HivriskStage} :
           ~InList(d, supported_sites) /\ ~InList(d, primary_sites)

\* C4: whatever the page path, a reference https://d/... (bare, or the
\* value of href= or src= in either quote) comes out as /d/... when d is a
\* supported site, as https://<primary host>/d/... when d is a primary
\* site, and unchanged when d is neither.
C4_ByClassOfDomain ==
    (call.op = "rewrite_html_urls" /\ ListsAsIntended) =>
        LET full_path == call.arg[1]
            refs == call.arg[2]
            d(ref) == RefDomain(ref)
            expected(ref) ==
                IF \/ d(ref) \in {<<>>, HivriskStage}
                   \/ ref[1] \in {SrcsetDq, SrcsetSq}
                THEN Alone(full_path, ref)
                ELSE IF InList(d(ref), supported_sites)
                THEN RefText(ref[1], LocalTarget(d(ref)))
                ELSE IF InList(d(ref), primary_sites)
                THEN RefText(ref[1], PrimaryTarget(d(ref)))
                ELSE RefText(ref[1], ref[2])
        IN  call.ret[1] =
                JoinTexts([i \in 1..Len(refs) |-> expected(refs[i])])

\* what C4 says holds of every call whose page path has the form
\* <domain>/...: the calls that refute C4 are those without the slash
C4_WherePathHasSlash ==
    (call.op = "rewrite_html_urls" /\ DomainSlashPath(call.arg[1]))
        => C4_ByClassOfDomain

\* C8: the rewriter run again over its own result, for the same page
\* <domain>/..., doubles no prefix: its result holds <attr>/<domain>/<domain>/
\* only where its argument held it already.
C8_NoDoublePrefix ==
    (call.op = "rewrite_html_urls again" /\ DomainSlashPath(call.arg[1])) =>
        LET x == DomainOfPath(call.arg[1])
        IN  \A attr \in Attrs :
                Contains(call.ret[1],
                         attr \o Slash \o x \o Slash \o x \o Slash)
                => Contains(call.local[1],
                            attr \o Slash \o x \o Slash \o x \o Slash)

\* a site of both lists, the staging host apart
InBothLists(d) ==
    /\ d # <<>>
    /\ d # HivriskStage
    /\ InList(d, supported_sites)
    /\ InList(d, primary_sites)

\* C9, as claimed: for a page path <domain>/..., a reference https://d/...
\* to a site d of both lists comes out as https://<primary host>/d/...
C9_PrimaryPassWins ==
    (call.op = "rewrite_html_urls" /\ DomainSlashPath(call.arg[1])) =>
        LET full_path == call.arg[1]
            refs == call.arg[2]
            expected(ref) ==
                IF InBothLists(RefDomain(ref))
                THEN RefText(ref[1], PrimaryTarget(RefDomain(ref)))
                ELSE Alone(full_path, ref)
        IN  call.ret[1] =
                JoinTexts([i \in 1..Len(refs) |-> expected(refs[i])])

\* C9, amended: the supported pass, which runs first, wins.  A reference
\* https://d/... to a site d of both lists (other than the staging host)
\* comes out as the local path /d/... when the page path has the form
\* <domain>/..., and unchanged when the page path holds no slash.
C9_SupportedPassWins ==
    call.op = "rewrite_html_urls" =>
        LET full_path == call.arg[1]
            refs == call.arg[2]
            expected(ref) ==
                IF InBothLists(RefDomain(ref))
                THEN IF DomainSlashPath(full_path)
                     THEN RefText(ref[1], LocalTarget(RefDomain(ref)))
                     ELSE RefText(ref[1], ref[2])
                ELSE Alone(full_path, ref)
        IN  call.ret[1] =
                JoinTexts([i \in 1..Len(refs) |-> expected(refs[i])])

\* c.d is in both lists and href="https://c.d/f" has come out as
\* href="/c.d/f"
C9_Witness ==
    /\ call.op = "rewrite_html_urls"
    /\ InBothLists(SiteCD)
    /\ call.arg[1] = SiteAB \o Slash
    /\ call.arg[2] = <<<<HrefDq, CrossSiteTarget(SiteCD)>>>>
    /\ call.ret[1] = RefText(HrefDq, LocalTarget(SiteCD))

(***************************************************************************)
(* Properties of the catch-all route, under Spec.  call.local holds the    *)
(* simplified path and what find_content returned for it.                  *)
(***************************************************************************)
\* C3: whenever the resolved media type is the sentinel =redirect=, the
\* response is a redirect to / followed by the stored content decoded as
\* UTF-8, the content as stored and not rewritten, and never a 200 with a
\* body.
C3_RedirectSentinel ==
    (/\ call.op = "lookup"
     /\ call.local[2] # Raised
     /\ call.local[2][2] = RedirectSentinel)
    => /\ call.status = 302
       /\ call.ret[1] = Slash \o Utf8Decode(call.local[2][1])
       /\ call.ret[2] = <<>>

\* the request /a.b has been redirected to /c.d/ followed by U+00E9, the
\* target stored under https://a.b/
C3_Witness ==
    /\ call.op = "lookup"
    /\ call.arg = <<SiteAB, <<>>>>
    /\ call.local[2] = <<SiteCD \o Slash \o <<ByteC3, ByteA9>>,
                         RedirectSentinel>>
    /\ call.status = 302
    /\ call.ret[1] = Slash \o SiteCD \o Slash \o <<EAcute>>

\* the media types C10 calls textual
ClaimedTextual(mimetype) ==
    \/ mimetype \in {TextHtml, AppJavascript, AppXJavascript,
                     TextJavascript, TextCss}
    \/ StartsWith(mimetype, TextHtmlSemi)

\* C10: the body of a 200 response is decided by the resolved record
\* alone: for a textual media type it is the stored content with the
\* rewrite rules applied for the domain of the request path, under
\* whichever key the record was found; for any other media type it is the
\* stored content.
C10_BodyByRecordAlone ==
    (call.op = "lookup" /\ call.status = 200) =>
        LET full_path == call.local[1]
            content == call.local[2][1]
            mimetype == call.local[2][2]
        IN  /\ call.ret[1] = mimetype
            /\ call.ret[2] =
                   IF ClaimedTextual(mimetype)
                   THEN rewrite_rules(DomainOfPath(full_path), content)
                   ELSE content

\* what C10 says holds of every request whose simplified path has the form
\* <domain>/...: the requests that refute it are those without the slash
C10_WherePathHasSlash ==
    (call.op = "lookup" /\ DomainSlashPath(call.local[1]))
        => C10_BodyByRecordAlone

====
